---- MODULE Spec2Model ----
(***************************************************************************)
(* Model of main.py (ePub_Python3): the background conversion worker       *)
(* FastFileEncodingWorker (encoding detection, chunked conversion to       *)
(* UTF-8, cooperative cancellation, progress / status / finished signals). *)
(*                                                                         *)
(* Sizes are scaled: one unit stands for a block of bytes, and the three   *)
(* size constants of the program are scaled down independently.  The       *)
(* worker thread advances one statement at a time (pc is the line it is    *)
(* about to execute); cancel() runs on the caller's thread and may         *)
(* interleave with any statement.                                          *)
(***************************************************************************)
EXTENDS Integers, Sequences, FiniteSets, TLC

\* ------------------------------------------------------------------ bounds
\* Longest source file, in characters.
MaxChars == 4
\* Longest runs of the two-part files of SpecLong (W^i A^j).
MaxRunW == 21
MaxRunA == 8
\* Longest file of SpecFair (K^n).
MaxRunK == 4

\* The worker objects select_text_file may create in one behaviour.
MaxWorkers == 3

\* The lines of the text file find_chapter_list scans.
MaxLines == 3

\* The rows of the table the user works on.
MaxRows == 3

\* The scans after the first whose model had rows.
MaxRescans == 1

\* ------------------------------------------------------- program constants
\* CHUNK_SIZE (main.py:31), in characters per read; scaled from 1024*1024.
CHUNK_SIZE == 2
\* SAMPLE_SIZE (main.py:32), in bytes; scaled from 1024*100.
SAMPLE_SIZE == 2
\* PROGRESS_UPDATE_INTERVAL (main.py:33), in bytes; scaled from 5*1024*1024.
PROGRESS_UPDATE_INTERVAL == 5
\* The confidence threshold 0.7 of line 99, in hundredths.
CONF_THRESHOLD == 70

\* Line 1023: the slots checkBox_RegEx1..9 of range(1, 10), scaled down.
NUM_SLOTS == 3

\* Line 1050: the lines a text file decodes at once (its read buffer), scaled
\* down.
DECODE_CHUNK == 2

Min(a, b) == IF a <= b THEN a ELSE b

\* ------------------------------------------------- Python float arithmetic
\* A Python float is an IEEE 754 binary64 number: a significand of 53 bits
\* and an exponent.  A positive float is modelled exactly, as
\*   [zero |-> FALSE, m |-> << m1, m2, m3, m4 >>, e |-> k]
\* standing for (2^52 + m1*2^39 + m2*2^26 + m3*2^13 + m4) * 2^k: the leading
\* bit of the significand, then four limbs of 13 bits.  Every operation
\* rounds to nearest, ties to even, as the hardware does.
Limb == 2 ^ 13

FloatZero == [zero |-> TRUE, m |-> << 0, 0, 0, 0 >>, e |-> 0]

\* The float nearest to the exact number (2^52 + m) * 2^e + rest, where
\* rest < 2^e: half says rest >= 2^e / 2, more says rest is not 0 or 2^e / 2.
RoundEven(m, e, half, more) ==
    IF ~(half /\ (more \/ m[4] % 2 = 1)) THEN [zero |-> FALSE, m |-> m, e |-> e]
    ELSE IF m[4] < Limb - 1
         THEN [zero |-> FALSE, m |-> << m[1], m[2], m[3], m[4] + 1 >>, e |-> e]
    ELSE IF m[3] < Limb - 1
         THEN [zero |-> FALSE, m |-> << m[1], m[2], m[3] + 1, 0 >>, e |-> e]
    ELSE IF m[2] < Limb - 1
         THEN [zero |-> FALSE, m |-> << m[1], m[2] + 1, 0, 0 >>, e |-> e]
    ELSE IF m[1] < Limb - 1
         THEN [zero |-> FALSE, m |-> << m[1] + 1, 0, 0, 0 >>, e |-> e]
    ELSE [zero |-> FALSE, m |-> << 0, 0, 0, 0 >>, e |-> e + 1]

RECURSIVE ScaleUp(_, _, _)
\* The least k >= 0 with d <= a * 2^k, as [a |-> a * 2^k, k |-> k].
ScaleUp(a, d, k) == IF a >= d THEN [a |-> a, k |-> k] ELSE ScaleUp(2 * a, d, k + 1)

RECURSIVE ScaleDown(_, _, _)
\* The greatest k >= 0 with d * 2^k <= a, as [d |-> d * 2^k, k |-> k].
ScaleDown(a, d, k) == IF 2 * d > a THEN [d |-> d, k |-> k] ELSE ScaleDown(a, 2 * d, k + 1)

\* p / f for Python ints 0 <= p < 2^17 and 0 < f < 2^17: the correctly
\* rounded quotient, by long division, 13 bits at a time.
FloatDiv(p, f) ==
    IF p = 0 THEN FloatZero
    ELSE LET up   == ScaleUp(p, f, 0)
             down == ScaleDown(up.a, f, 0)
             d    == down.d
             r0   == up.a - d
             r1   == (r0 * Limb) % d
             r2   == (r1 * Limb) % d
             r3   == (r2 * Limb) % d
             r4   == (r3 * Limb) % d
             m    == << (r0 * Limb) \div d, (r1 * Limb) \div d,
                        (r2 * Limb) \div d, (r3 * Limb) \div d >>
         IN  RoundEven(m, (down.k - up.k) - 52, 2 * r4 >= d, (2 * r4) % d # 0)

RECURSIVE BitLen(_)
BitLen(n) == IF n = 0 THEN 0 ELSE 1 + BitLen(n \div 2)

\* x * c for a float x and an integer 0 < c < 2^13 (exactly a float).
FloatMul(x, c) ==
    IF x.zero THEN x
    ELSE LET t4 == x.m[4] * c
             t3 == x.m[3] * c + t4 \div Limb
             t2 == x.m[2] * c + t3 \div Limb
             t1 == x.m[1] * c + t2 \div Limb
             t0 == c + t1 \div Limb
             o  == << t1 % Limb, t2 % Limb, t3 % Limb, t4 % Limb >>
             s  == BitLen(t0) - 1
             S  == 2 ^ s
             hi(v) == (v % S) * (Limb \div S)
             m  == << hi(t0) + o[1] \div S, hi(o[1]) + o[2] \div S,
                      hi(o[2]) + o[3] \div S, hi(o[3]) + o[4] \div S >>
         IN  RoundEven(m, x.e + s,
                       s > 0 /\ (o[4] % S) >= S \div 2,
                       s > 0 /\ (o[4] % S) % (S \div 2) # 0)

\* int(x) for a float x >= 0: truncation towards zero (a value of 2^27 or
\* more is reported as 2^27).
FloatToInt(x) ==
    LET k == 53 + x.e
    IN  IF x.zero \/ k <= 0 THEN 0
        ELSE IF k <= 14 THEN (Limb + x.m[1]) \div (2 ^ (14 - k))
        ELSE IF k <= 27 THEN ((Limb + x.m[1]) * Limb + x.m[2]) \div (2 ^ (27 - k))
        ELSE 2 ^ 27

\* Line 134 without the clamp: int((processed_bytes / file_size) * 100).
ProgressPercentUnclamped(processed_bytes, file_size) ==
    FloatToInt(FloatMul(FloatDiv(processed_bytes, file_size), 100))

\* Line 134: min(int((processed_bytes / file_size) * 100), 100).
ProgressPercent(processed_bytes, file_size) ==
    Min(FloatToInt(FloatMul(FloatDiv(processed_bytes, file_size), 100)), 100)

\* ------------------------------------------------------------ the source file
\* The source file is modelled by its decoded text: a sequence of characters,
\* each of a kind that fixes how many bytes it takes in the source encoding
\* and in UTF-8.  "A": 1 and 1 (ASCII), "K": 2 and 3 (a Hangul syllable in
\* cp949), "W": 2 and 1 (an ASCII character in UTF-16).  "R" and "N" are the
\* carriage return and the line feed, one byte each in both.
CharKinds == {"A", "K", "W"}

SrcBytes(c) == IF c \in {"A", "R", "N"} THEN 1 ELSE 2

Utf8Bytes(c) == IF c = "K" THEN 3 ELSE 1

RECURSIVE GetSize(_)
\* os.path.getsize(source_path) (line 116) and the bytes f.read() can deliver.
GetSize(text) ==
    IF text = << >> THEN 0 ELSE SrcBytes(Head(text)) + GetSize(Tail(text))

RECURSIVE Utf8Len(_)
\* len(chunk.encode('utf-8')) (line 130).
Utf8Len(text) ==
    IF text = << >> THEN 0 ELSE Utf8Bytes(Head(text)) + Utf8Len(Tail(text))

RECURSIVE Repeat(_, _)
Repeat(c, n) == IF n = 0 THEN << >> ELSE << c >> \o Repeat(c, n - 1)

RECURSIVE TextsUpTo(_)
\* Every text of at most n characters.
TextsUpTo(n) ==
    IF n = 0 THEN {<< >>}
    ELSE LET shorter == TextsUpTo(n - 1)
         IN  shorter \cup {t \o << c >> : t \in {u \in shorter : Len(u) = n - 1},
                                           c \in CharKinds}

ShortFiles == TextsUpTo(MaxChars)

RECURSIVE WithLineEnds(_)
\* The text with "W" turned into a carriage return and "A" into a line feed.
WithLineEnds(text) ==
    IF text = << >> THEN << >>
    ELSE << CASE Head(text) = "W" -> "R"
              [] Head(text) = "A" -> "N"
              [] OTHER -> Head(text) >> \o WithLineEnds(Tail(text))

\* Every text of at most MaxChars Hangul syllables, carriage returns and line
\* feeds.
NewlineFiles == {WithLineEnds(t) : t \in ShortFiles}

RECURSIVE UniversalNewlines(_)
\* What a file opened in text mode with the default newline=None (line 121)
\* delivers: "\r\n" and a lone "\r" both arrive as "\n".
UniversalNewlines(text) ==
    IF text = << >> THEN << >>
    ELSE IF Head(text) = "R"
         THEN << "N" >> \o UniversalNewlines(IF Len(text) > 1 /\ text[2] = "N"
                                              THEN Tail(Tail(text))
                                              ELSE Tail(text))
         ELSE << Head(text) >> \o UniversalNewlines(Tail(text))

\* Every text of at most MaxRunK Hangul syllables.
HangulFiles == {Repeat("K", n) : n \in 0..MaxRunK}

LongFiles == {Repeat("W", i) \o Repeat("A", j) : i \in 0..MaxRunW, j \in 0..MaxRunA}

\* ------------------------------------------------------------------ chardet
None == "None"

\* Encoding names chardet.detect reports (in its own spelling).
EncodingNames == {"utf-8", "UTF-8-SIG", "ascii", "EUC-KR"}

\* str.lower() on those names.
Lower(name) ==
    CASE name = "UTF-8-SIG" -> "utf-8-sig"
      [] name = "EUC-KR"    -> "euc-kr"
      [] OTHER              -> name

\* Confidences chardet.detect reports, in hundredths.
Confidences == {0, 69, 70, 99}

\* The results chardet.detect can return: a name with a confidence, or no
\* name at all with confidence 0.0.
DetectResults ==
    [encoding : EncodingNames, confidence : Confidences \ {0}]
        \cup {[encoding |-> None, confidence |-> 0]}

\* ------------------------------------------------------------------- paths
FILE_PATH == "book.txt"

\* Lines 176-177: parent / f"{stem}_utf8{suffix}".
Utf8Path(path) == IF path = "book.txt" THEN "book_utf8.txt" ELSE path \o "_utf8"

\* ------------------------------------------------------------------- state
VARIABLES
    pc,                   \* the statement the worker thread executes next
    is_cancelled,         \* self._is_cancelled
    cancelAt,             \* where the worker stood when cancel() was called
    reads_after_cancel,   \* fin.read calls made since cancel() was called
    writes_after_cancel,  \* fout.write calls made since cancel() was called
    file,                 \* the source file's decoded text
    fpos,                 \* characters of fin already read
    dest,                 \* the destination file: [exists, data]
    events,               \* the signals emitted so far, in order
    detect_calls,         \* chardet.detect calls of the current detection
    sample,               \* len(sample) in detect_encoding_fast
    confidence,           \* confidence in detect_encoding_fast
    det_encoding,         \* encoding in detect_encoding_fast
    det_line,             \* the return statement detect_encoding_fast took
    retval,               \* the value detect_encoding_fast returned
    encoding,             \* encoding in run
    file_size,            \* file_size in convert_file_chunked
    processed_bytes,      \* processed_bytes in convert_file_chunked
    last_progress_update, \* last_progress_update in convert_file_chunked
    chunk,                \* chunk in convert_file_chunked
    exc                   \* the message of the exception being propagated

\* MainWindow's side of the conversion (select_text_file, lines 783-857).
VARIABLES
    gui_pc,               \* the statement of select_text_file the GUI thread is at
    worker,               \* self.worker: the number of a worker object, or 0 for None
    threads,              \* every worker object: its thread's state and its flag
    button_enabled,       \* pushButton_SelectTextFile.isEnabled()
    queued,               \* the finished signals waiting in the GUI's event queue
    label_TextFilePath    \* self.label_TextFilePath.text()

\* find_chapter_list (lines 991-1232) and the table it fills.
VARIABLES
    scan_pc,              \* the statement of find_chapter_list the GUI thread is at
    slots,                \* checkBox_RegEx{i}.isChecked() and comboBox_RegEx{i}'s text
    book,                 \* the lines of the text file the label names
    slot_i,               \* i of the loop of line 1023
    patterns,             \* patterns
    enc_no,               \* the place of enc in the tuple of line 1048
    ln,                   \* ln of the loop of line 1051: lines delivered so far
    rows,                 \* rows
    model_data,           \* the _data of the ChapterTableModel the table shows
    label_ChapterCount,   \* the count label_ChapterCount shows, -1 before any
    last_op,              \* the last operation on the table
    data_before,          \* _data as it was before that operation
    op_before,            \* "toggleAll" when the two last operations were toggleAll
    data_before2,         \* then _data as it was before the first of the two
    set_calls,            \* the calls of setData the last operation made, each
                          \* with its index, value, role and return value
    old_models            \* _data of the models of earlier scans, whose
                          \* on_header_clicked is still connected (line 1229)

io == << file, fpos, dest >>
detectLocals == << detect_calls, sample, confidence, det_encoding, det_line, retval >>
convertLocals == << file_size, processed_bytes, last_progress_update, chunk >>
cancelState == << is_cancelled, cancelAt, reads_after_cancel, writes_after_cancel >>
workerVars == << pc, is_cancelled, cancelAt, reads_after_cancel, writes_after_cancel, file, fpos, dest, events, detect_calls, sample,
                 confidence, det_encoding, det_line, retval, encoding, file_size,
                 processed_bytes, last_progress_update, chunk, exc >>

selectVars == << gui_pc, worker, threads, button_enabled, queued, label_TextFilePath >>

scanVars == << scan_pc, slots, book, slot_i, patterns, enc_no, ln, rows >>

tableVars == << model_data, label_ChapterCount, last_op, data_before, op_before,
               data_before2, set_calls, old_models >>

\* Everything MainWindow's handlers work on.
windowVars == << selectVars, scanVars, tableVars >>

\* What select_text_file and the worker threads leave alone.
besidesSelect == << workerVars, scanVars, tableVars >>

\* What find_chapter_list leaves alone.
besidesScan == << workerVars, selectVars >>

vars == << workerVars, windowVars >>

Progress(value, line) ==
    [sig |-> "progress", val |-> value, line |-> line, bytes |-> processed_bytes]

Status(text, line) == [sig |-> "status", text |-> text, line |-> line]

Finished(path, error, line) ==
    [sig |-> "finished", path |-> path, error |-> error, line |-> line]

Emit(e) == events' = Append(events, e)

\* FastFileEncodingWorker.__init__ (lines 72-75) on a given source file.
InitWith(files) ==
    /\ pc = "idle"
    /\ is_cancelled = FALSE
    /\ cancelAt = "never"
    /\ reads_after_cancel = 0
    /\ writes_after_cancel = 0
    /\ file \in files
    /\ fpos = 0
    /\ dest = [exists |-> FALSE, data |-> << >>]
    /\ events = << >>
    /\ detect_calls = << >>
    /\ sample = 0
    /\ confidence = 0
    /\ det_encoding = None
    /\ det_line = 0
    /\ retval = None
    /\ encoding = "unset"
    /\ file_size = 0
    /\ processed_bytes = 0
    /\ last_progress_update = 0
    /\ chunk = << >>
    /\ exc = ""

\* MainWindow.__init__ (line 636): no worker yet, the button enabled.
SelectIdle ==
    /\ gui_pc = "idle"
    /\ worker = 0
    /\ threads = [w \in 1..MaxWorkers |->
                    [state |-> "unborn", is_cancelled |-> FALSE, signalled |-> FALSE]]
    /\ button_enabled = TRUE
    /\ queued = {}
    /\ label_TextFilePath = ""

\* find_chapter_list not called: no pattern chosen, no file named.
ScanIdle ==
    /\ scan_pc = "idle"
    /\ slots = [s \in 1..NUM_SLOTS |-> [checked |-> FALSE, text |-> << >>]]
    /\ book = << >>
    /\ slot_i = 0
    /\ patterns = << >>
    /\ enc_no = 0
    /\ ln = 0
    /\ rows = << >>

\* The table before any model is set (line 1203).
TableIdle ==
    /\ model_data = << >>
    /\ label_ChapterCount = -1
    /\ last_op = "none"
    /\ data_before = << >>
    /\ op_before = "none"
    /\ data_before2 = << >>
    /\ set_calls = << >>
    /\ old_models = << >>

\* The window at rest while one worker is looked at on its own.
WindowIdle == SelectIdle /\ ScanIdle /\ TableIdle

Init == InitWith(ShortFiles) /\ WindowIdle

InitLong == InitWith(LongFiles) /\ WindowIdle

InitNewlines == InitWith(NewlineFiles) /\ WindowIdle

\* The worker on a file of Hangul syllables only.
InitFair == InitWith(HangulFiles) /\ WindowIdle

\* --------------------------------------------------------- caller's thread
\* QThread.start(): the worker thread begins run().
Start ==
    /\ pc = "idle"
    /\ pc' = "L153"
    /\ UNCHANGED << windowVars, cancelState, io, events, detectLocals, encoding, convertLocals, exc >>

\* cancel() (lines 77-79), at any moment of the worker's life.
Cancel ==
    /\ ~is_cancelled
    /\ is_cancelled' = TRUE
    /\ cancelAt' = pc
    /\ UNCHANGED << windowVars, reads_after_cancel, writes_after_cancel >>
    /\ UNCHANGED << pc, io, events, detectLocals, encoding, convertLocals, exc >>

\* ------------------------------------------------------- run, lines 151-170
\* A step of run that only moves on.
RunGoto(from, to) ==
    /\ pc = from
    /\ pc' = to
    /\ UNCHANGED << windowVars, cancelState, io, events, detectLocals, encoding, convertLocals, exc >>

\* A step of run or convert_file_chunked that emits one signal.
EmitStep(from, to, e) ==
    /\ pc = from
    /\ pc' = to
    /\ Emit(e)
    /\ UNCHANGED << windowVars, cancelState, io, detectLocals, encoding, convertLocals, exc >>

\* Lines 153-154: if self._is_cancelled: return.
RunCheckCancelled ==
    IF is_cancelled THEN RunGoto("L153", "ret154") ELSE RunGoto("L153", "L157")

\* Line 157.
RunEmitDetecting == EmitStep("L157", "L158", Status("detecting", 157))

\* Line 158.
RunEmitProgress0 == EmitStep("L158", "L87", Progress(0, 158))

\* ------------------------------------- detect_encoding_fast, lines 81-109
DetectGoto(from, to) ==
    /\ pc = from
    /\ pc' = to
    /\ UNCHANGED << windowVars, cancelState, io, events, detectLocals, encoding, convertLocals, exc >>

\* Line 87: open(file_path, 'rb').
DetectOpen == DetectGoto("L87", "L88")

\* Line 88: sample = f.read(SAMPLE_SIZE).
DetectRead ==
    /\ pc = "L88"
    /\ pc' = "L89"
    /\ sample' = Min(GetSize(file), SAMPLE_SIZE)
    /\ UNCHANGED << windowVars, cancelState, io, events, detect_calls, confidence, det_encoding,
                    det_line, retval, encoding, convertLocals, exc >>

\* Lines 87, 88, 100-101: the open, read or seek raises (caught at line 107).
DetectIOError ==
    /\ pc \in {"L87", "L88", "L100"}
    /\ pc' = "L108"
    /\ UNCHANGED << windowVars, cancelState, io, events, detectLocals, encoding, convertLocals, exc >>

DetectReturn(from, value, line) ==
    /\ pc = from
    /\ pc' = "L160"
    /\ retval' = value
    /\ det_line' = line
    /\ UNCHANGED << windowVars, cancelState, io, events, detect_calls, sample, confidence,
                    det_encoding, encoding, convertLocals, exc >>

\* Lines 89-90: if not sample: return 'utf-8'.
DetectEmpty ==
    IF sample = 0 THEN DetectReturn("L89", "utf-8", 90) ELSE DetectGoto("L89", "L92")

\* Lines 92-94: result = chardet.detect(sample), whatever the library finds.
DetectFirst ==
    /\ pc = "L92"
    /\ pc' = "L99"
    /\ \E result \in DetectResults :
          /\ detect_calls' = Append(detect_calls, [len |-> sample, result |-> result])
          /\ det_encoding' = result.encoding
          /\ confidence' = result.confidence
    /\ UNCHANGED << windowVars, cancelState, io, events, sample, det_line, retval, encoding,
                    convertLocals, exc >>

\* Line 99 without the test of the sample's length.
DetectCheckConfidenceOnly ==
    IF confidence < CONF_THRESHOLD
    THEN DetectGoto("L99", "L100")
    ELSE DetectGoto("L99", "L106")

\* Line 99: if confidence < 0.7 and len(sample) == SAMPLE_SIZE.
DetectCheckConfidence ==
    IF confidence < CONF_THRESHOLD /\ sample = SAMPLE_SIZE
    THEN DetectGoto("L99", "L100")
    ELSE DetectGoto("L99", "L106")

\* Lines 100-103: f.seek(0); larger_sample = f.read(SAMPLE_SIZE * 3);
\* result = chardet.detect(larger_sample); encoding = result['encoding'].
\* chardet is a function of its input: a file no longer than the first sample
\* gives the first result again.
DetectSecond ==
    /\ pc = "L100"
    /\ pc' = "L106"
    /\ LET larger == Min(GetSize(file), SAMPLE_SIZE * 3)
       IN  \E result \in DetectResults :
              /\ larger = sample => result = detect_calls[1].result
              /\ detect_calls' = Append(detect_calls, [len |-> larger, result |-> result])
              /\ det_encoding' = result.encoding
    /\ UNCHANGED << windowVars, cancelState, io, events, sample, confidence, det_line, retval,
                    encoding, convertLocals, exc >>

\* Line 106 without the fallback: return encoding.
DetectResultRaw == DetectReturn("L106", det_encoding, 106)

\* Line 106: return encoding if encoding else 'utf-8'.
DetectResult ==
    DetectReturn("L106", IF det_encoding # None THEN det_encoding ELSE "utf-8", 106)

\* Lines 107-109 returning another name than 'utf-8'.
DetectExceptEucKr == DetectReturn("L108", "EUC-KR", 109)

\* Lines 107-109: except Exception: return 'utf-8'.
DetectExcept == DetectReturn("L108", "utf-8", 109)

\* Line 160: encoding = self.detect_encoding_fast(self.file_path); the callee's
\* frame is gone, det_line keeps the return statement it took.
RunAssignEncoding ==
    /\ pc = "L160"
    /\ pc' = "L162"
    /\ encoding' = retval
    /\ detect_calls' = << >>
    /\ sample' = 0
    /\ confidence' = 0
    /\ det_encoding' = None
    /\ det_line' = det_line
    /\ retval' = None
    /\ UNCHANGED << windowVars, cancelState, io, events, convertLocals, exc >>

\* Lines 162-163: if self._is_cancelled: return.
RunCheckCancelledAfterDetect ==
    IF is_cancelled THEN RunGoto("L162", "ret163") ELSE RunGoto("L162", "L166")

\* Line 166 without lower().
RunCheckUtf8CaseSensitive ==
    IF encoding # None /\ encoding \in {"utf-8", "utf-8-sig", "ascii"}
    THEN RunGoto("L166", "L167")
    ELSE RunGoto("L166", "L173")

\* Line 166: if encoding and encoding.lower() in ['utf-8', 'utf-8-sig', 'ascii'].
RunCheckUtf8 ==
    IF encoding # None /\ Lower(encoding) \in {"utf-8", "utf-8-sig", "ascii"}
    THEN RunGoto("L166", "L167")
    ELSE RunGoto("L166", "L173")

\* Line 167.
RunEmitAlreadyUtf8 == EmitStep("L167", "L168", Status("already_utf8", 167))

\* Line 168.
RunEmitProgress100 == EmitStep("L168", "L169", Progress(100, 168))

\* Line 169 without the return of line 170: run goes on to convert.
RunEmitFinishedSourceNoReturn == EmitStep("L169", "L173", Finished(FILE_PATH, "", 169))

\* Lines 169-170: self.finished.emit(self.file_path, ""); return.
RunEmitFinishedSource == EmitStep("L169", "ret170", Finished(FILE_PATH, "", 169))

\* Lines 173-180: the start message, then the call of convert_file_chunked.
RunEmitConvertStart == EmitStep("L173", "L116", Status("convert_start", 173))

\* ------------------------------------- convert_file_chunked, lines 111-149
ConvGoto(from, to) ==
    /\ pc = from
    /\ pc' = to
    /\ UNCHANGED << windowVars, cancelState, io, events, detectLocals, encoding, convertLocals, exc >>

\* Lines 116-118: file_size = os.path.getsize(source_path) and the counters.
ConvGetSize ==
    /\ pc = "L116"
    /\ pc' = "L121"
    /\ file_size' = GetSize(file)
    /\ processed_bytes' = 0
    /\ last_progress_update' = 0
    /\ UNCHANGED << windowVars, cancelState, io, events, detectLocals, encoding, chunk, exc >>

\* Line 116 raises OSError: outside the try of line 120, so it reaches run's
\* handler as it is.
ConvGetSizeError ==
    /\ pc = "L116"
    /\ pc' = "L186"
    /\ exc' = "os_error"
    /\ UNCHANGED << windowVars, cancelState, io, events, detectLocals, encoding, convertLocals >>

\* Line 121: open(source_path, 'r', encoding=source_encoding, errors='replace').
ConvOpenSource ==
    /\ pc = "L121"
    /\ pc' = "L122"
    /\ fpos' = 0
    /\ UNCHANGED << windowVars, cancelState, file, dest, events, detectLocals, encoding,
                    convertLocals, exc >>

\* Line 122: open(target_path, 'w', encoding='utf-8') creates or truncates.
ConvOpenTarget ==
    /\ pc = "L122"
    /\ pc' = "L124"
    /\ dest' = [exists |-> TRUE, data |-> << >>]
    /\ UNCHANGED << windowVars, cancelState, file, fpos, events, detectLocals, encoding,
                    convertLocals, exc >>

\* Line 124 as while True: the flag is not looked at.
ConvLoopCheckIgnoringFlag == ConvGoto("L124", "L125")

\* Line 124: while not self._is_cancelled; leaving the loop leaves the with.
ConvLoopCheck ==
    IF is_cancelled THEN ConvGoto("L124", "Lclose") ELSE ConvGoto("L124", "L125")

\* Line 125: chunk = fin.read(CHUNK_SIZE), at most CHUNK_SIZE characters of
\* the text the reader delivers.
ConvRead ==
    /\ pc = "L125"
    /\ pc' = "L126"
    /\ LET text == UniversalNewlines(file)
           upto == Min(fpos + CHUNK_SIZE, Len(text))
       IN  /\ chunk' = SubSeq(text, fpos + 1, upto)
           /\ fpos' = upto
    /\ reads_after_cancel' = IF is_cancelled THEN reads_after_cancel + 1 ELSE 0
    /\ UNCHANGED << windowVars, is_cancelled, cancelAt, writes_after_cancel, file, dest, events, detectLocals, encoding,
                    file_size, processed_bytes, last_progress_update, exc >>

\* Lines 126-127 without the break.
ConvCheckEndNoBreak == ConvGoto("L126", "L129")

\* Lines 126-127: if not chunk: break.
ConvCheckEnd ==
    IF chunk = << >> THEN ConvGoto("L126", "Lclose") ELSE ConvGoto("L126", "L129")

\* Line 129: fout.write(chunk).
ConvWrite ==
    /\ pc = "L129"
    /\ pc' = "L130"
    /\ dest' = [dest EXCEPT !.data = @ \o chunk]
    /\ writes_after_cancel' = IF is_cancelled THEN writes_after_cancel + 1 ELSE 0
    /\ UNCHANGED << windowVars, is_cancelled, cancelAt, reads_after_cancel, file, fpos, events, detectLocals, encoding,
                    convertLocals, exc >>

\* Line 130: processed_bytes += len(chunk.encode('utf-8')).
ConvCount ==
    /\ pc = "L130"
    /\ pc' = "L133"
    /\ processed_bytes' = processed_bytes + Utf8Len(chunk)
    /\ UNCHANGED << windowVars, cancelState, io, events, detectLocals, encoding, file_size,
                    last_progress_update, chunk, exc >>

\* Line 133 comparing the total instead of the growth.
ConvCheckIntervalOfTotal ==
    IF processed_bytes >= PROGRESS_UPDATE_INTERVAL
    THEN ConvGoto("L133", "L134")
    ELSE ConvGoto("L133", "L124")

\* Line 133: if processed_bytes - last_progress_update >= PROGRESS_UPDATE_INTERVAL.
ConvCheckInterval ==
    IF processed_bytes - last_progress_update >= PROGRESS_UPDATE_INTERVAL
    THEN ConvGoto("L133", "L134")
    ELSE ConvGoto("L133", "L124")

\* Lines 134-136: the throttled progress signal.
ConvEmitProgress ==
    /\ pc = "L134"
    /\ pc' = "L139"
    /\ Emit(Progress(ProgressPercent(processed_bytes, file_size), 135))
    /\ last_progress_update' = processed_bytes
    /\ UNCHANGED << windowVars, cancelState, io, detectLocals, encoding, file_size,
                    processed_bytes, chunk, exc >>

\* Lines 139-141: the "processed X MB / Y MB" status signal.
ConvEmitStatus == EmitStep("L139", "L124", Status("converting", 141))

\* The end of the with block of lines 121-122: both files are closed.
ConvClose == ConvGoto("Lclose", "L144")

\* Opening, reading, writing or closing raises inside the try of line 120.
ConvIOError ==
    /\ pc \in {"L121", "L122", "L125", "L129", "Lclose"}
    /\ pc' = "L149"
    /\ exc' = "io_error"
    /\ UNCHANGED << windowVars, cancelState, io, events, detectLocals, encoding, convertLocals >>

\* Line 144 without the test of the flag.
ConvPostCheckIgnoringFlag == ConvGoto("L144", "L145")

\* Line 144: if not self._is_cancelled.
ConvPostCheck ==
    IF is_cancelled THEN ConvGoto("L144", "L182") ELSE ConvGoto("L144", "L145")

\* Line 145: self.progress.emit(100).
ConvEmit100 == EmitStep("L145", "L146", Progress(100, 145))

\* Line 146: self.status_update.emit("conversion complete").
ConvEmitComplete == EmitStep("L146", "L182", Status("complete", 146))

\* Lines 148-149 swallowing the exception instead of raising.
ConvSwallow ==
    /\ pc = "L149"
    /\ pc' = "L182"
    /\ UNCHANGED << windowVars, cancelState, io, events, detectLocals, encoding, convertLocals, exc >>

\* Lines 148-149: raise Exception(f"...: {e}").
ConvRaise ==
    /\ pc = "L149"
    /\ pc' = "L186"
    /\ exc' = "convert_error: " \o exc
    /\ UNCHANGED << windowVars, cancelState, io, events, detectLocals, encoding, convertLocals >>

\* ------------------------------------------------------- run, lines 182-189
\* Line 182 without the test of the flag.
RunCheckCancelledAfterConvertIgnoringFlag == RunGoto("L182", "L183")

\* Line 182: if not self._is_cancelled.
RunCheckCancelledAfterConvert ==
    IF is_cancelled THEN RunGoto("L182", "end182") ELSE RunGoto("L182", "L183")

\* Line 183 with the emit raising into the except of line 185.
RunEmitFinishedUtf8Raising == EmitStep("L183", "L186", Finished(Utf8Path(FILE_PATH), "", 183))

\* Line 183: self.finished.emit(utf8_path, "").
RunEmitFinishedUtf8 == EmitStep("L183", "end183", Finished(Utf8Path(FILE_PATH), "", 183))

\* Lines 185-188: except Exception as e; the error status signal.
RunExcept == EmitStep("L186", "L189", Status("error: " \o exc, 188))

\* Line 189: self.finished.emit("", error_msg).
RunEmitFinishedError == EmitStep("L189", "end189", Finished("", exc, 189))

\* ------------------------------------------------------------ specification
WorkerStep ==
    \/ RunCheckCancelled
    \/ RunEmitDetecting
    \/ RunEmitProgress0
    \/ DetectOpen
    \/ DetectRead
    \/ DetectIOError
    \/ DetectEmpty
    \/ DetectFirst
    \/ DetectCheckConfidence
    \/ DetectSecond
    \/ DetectResult
    \/ DetectExcept
    \/ RunAssignEncoding
    \/ RunCheckCancelledAfterDetect
    \/ RunCheckUtf8
    \/ RunEmitAlreadyUtf8
    \/ RunEmitProgress100
    \/ RunEmitFinishedSource
    \/ RunEmitConvertStart
    \/ ConvGetSize
    \/ ConvGetSizeError
    \/ ConvOpenSource
    \/ ConvOpenTarget
    \/ ConvLoopCheck
    \/ ConvRead
    \/ ConvCheckEnd
    \/ ConvWrite
    \/ ConvCount
    \/ ConvCheckInterval
    \/ ConvEmitProgress
    \/ ConvEmitStatus
    \/ ConvClose
    \/ ConvIOError
    \/ ConvPostCheck
    \/ ConvEmit100
    \/ ConvEmitComplete
    \/ ConvRaise
    \/ RunCheckCancelledAfterConvert
    \/ RunEmitFinishedUtf8
    \/ RunExcept
    \/ RunEmitFinishedError

Next == Start \/ Cancel \/ WorkerStep

Spec == Init /\ [][Next]_vars

\* The worker thread is scheduled: a run that can take a step takes one in
\* the end. Nothing is asked of the caller, who may never call cancel().
SpecFair == InitFair /\ [][Next]_vars /\ WF_vars(WorkerStep)

\* The same worker on long files of two parts.
SpecLong == InitLong /\ [][Next]_vars

\* The same worker on files with line ends.
SpecNewlines == InitNewlines /\ [][Next]_vars

\* ------------------------------------------- select_text_file, lines 783-857
\* The worker threads are seen from the window: a thread is "running" from
\* start() until run has returned, whatever run does in between.
IsRunning(w) == w # 0 /\ threads[w].state = "running"

SelectGoto(from, to) ==
    /\ gui_pc = from
    /\ gui_pc' = to
    /\ UNCHANGED << besidesSelect, worker, threads, button_enabled, queued, label_TextFilePath >>

\* The click on pushButton_SelectTextFile (line 695); lines 790-795 open the
\* file dialog.
SelectClicked ==
    /\ button_enabled
    /\ \E w \in 1..MaxWorkers : threads[w].state = "unborn"
    /\ SelectGoto("idle", "L790")

\* Lines 797-819: no file chosen, the size not readable or the large file
\* declined: return.
SelectNoFile == SelectGoto("L790", "idle")

\* Lines 797-819 passed with a file.
SelectFile == SelectGoto("L790", "L822")

\* Lines 822-830: the file is already UTF-8; the path is shown and the handler
\* returns.
SelectAlreadyUtf8 ==
    /\ gui_pc = "L822"
    /\ gui_pc' = "idle"
    /\ label_TextFilePath' = FILE_PATH
    /\ UNCHANGED << besidesSelect, worker, threads, button_enabled, queued >>

\* Lines 822-835: the file needs a conversion.
SelectNeedsConversion == SelectGoto("L822", "L838")

\* Line 838: if self.worker and self.worker.isRunning().
SelectCheckRunning ==
    IF IsRunning(worker) THEN SelectGoto("L838", "L839") ELSE SelectGoto("L838", "L843")

\* Line 839: self.worker.cancel().
SelectCancel ==
    /\ gui_pc = "L839"
    /\ gui_pc' = "L840"
    /\ threads' = [threads EXCEPT ![worker].is_cancelled = TRUE]
    /\ UNCHANGED << besidesSelect, worker, button_enabled, queued, label_TextFilePath >>

\* Line 840 returning at once.
SelectNoWait == SelectGoto("L840", "L843")

\* Line 840: self.worker.wait() returns when the thread has ended.
SelectWait ==
    /\ ~IsRunning(worker)
    /\ SelectGoto("L840", "L843")

\* Lines 843-850: the label, and pushButton_SelectTextFile.setEnabled(False).
SelectDisable ==
    /\ gui_pc = "L843"
    /\ gui_pc' = "L853"
    /\ label_TextFilePath' = "preparing"
    /\ button_enabled' = FALSE
    /\ UNCHANGED << besidesSelect, worker, threads, queued >>

\* Lines 853-856: self.worker = FastFileEncodingWorker(file_path) and the
\* connections of its signals.
SelectConstruct ==
    /\ gui_pc = "L853"
    /\ gui_pc' = "L857"
    /\ LET fresh == {w \in 1..MaxWorkers : threads[w].state = "unborn"}
           w == CHOOSE x \in fresh : \A y \in fresh : x <= y
       IN  /\ worker' = w
           /\ threads' = [threads EXCEPT ![w].state = "created"]
    /\ UNCHANGED << besidesSelect, button_enabled, queued, label_TextFilePath >>

\* Line 857: self.worker.start().
SelectStart ==
    /\ gui_pc = "L857"
    /\ gui_pc' = "idle"
    /\ threads' = [threads EXCEPT ![worker].state = "running"]
    /\ UNCHANGED << besidesSelect, worker, button_enabled, queued, label_TextFilePath >>

\* A running worker emits finished (lines 169, 183, 189): the call of
\* on_conversion_finished is queued for the GUI thread.
ThreadEmitsFinished(w) ==
    /\ threads[w].state = "running"
    /\ ~threads[w].signalled
    /\ threads' = [threads EXCEPT ![w].signalled = TRUE]
    /\ \E error_msg \in {"", "error"} :
          queued' = queued \cup {[sender |-> w, error_msg |-> error_msg]}
    /\ UNCHANGED << besidesSelect, gui_pc, worker, button_enabled, label_TextFilePath >>

\* run returns: after its finished signal, or without one when it saw the
\* flag set (lines 154, 163, 182).
ThreadEnds(w) ==
    /\ threads[w].state = "running"
    /\ threads[w].signalled \/ threads[w].is_cancelled
    /\ threads' = [threads EXCEPT ![w].state = "ended"]
    /\ UNCHANGED << besidesSelect, gui_pc, worker, button_enabled, queued, label_TextFilePath >>

\* on_conversion_finished (lines 891-926), run by the event loop of the GUI
\* thread or by that of the open file dialog: line 899 enables the button,
\* lines 913 and 917 show the outcome.
on_conversion_finished(w) ==
    /\ gui_pc \in {"idle", "L790"}
    /\ \E q \in queued :
          /\ q.sender = w
          /\ queued' = queued \ {q}
          /\ label_TextFilePath' =
                IF q.error_msg # "" THEN "failed" ELSE Utf8Path(FILE_PATH)
    /\ button_enabled' = TRUE
    /\ UNCHANGED << besidesSelect, gui_pc, worker, threads >>

NextSelect ==
    \/ SelectClicked
    \/ SelectNoFile
    \/ SelectFile
    \/ SelectAlreadyUtf8
    \/ SelectNeedsConversion
    \/ SelectCheckRunning
    \/ SelectCancel
    \/ SelectWait
    \/ SelectDisable
    \/ SelectConstruct
    \/ SelectStart
    \/ \E w \in 1..MaxWorkers : ThreadEmitsFinished(w)
    \/ \E w \in 1..MaxWorkers : ThreadEnds(w)
    \/ \E w \in 1..MaxWorkers : on_conversion_finished(w)

InitSelect == InitWith({<< >>}) /\ SelectIdle /\ ScanIdle /\ TableIdle

\* The window starting conversions, one after the other.
SpecSelect == InitSelect /\ [][NextSelect]_vars

\* ------------------------------------------ find_chapter_list, lines 991-1057
\* Pattern texts and lines are sequences of characters.  A pattern is a
\* literal: "a" and "b" stand for themselves, " " is white space, and a text
\* with "(" does not compile.  In a line, "k" is a character whose bytes only
\* cp949 decodes, "x" one whose bytes no candidate encoding decodes.
SlotTexts == {<< >>, << " " >>, << "(" >>, << "a" >>, << "a", "b" >>}

SlotSettings ==
    {[checked |-> FALSE, text |-> << "a" >>]}
        \cup {[checked |-> TRUE, text |-> t] : t \in SlotTexts}

LineTexts == {<< "a" >>, << "a", "b" >>, << "k" >>, << "x" >>}

RECURSIVE BooksUpTo(_)
\* Every file of at most n lines.
BooksUpTo(n) ==
    IF n = 0 THEN {<< >>}
    ELSE LET shorter == BooksUpTo(n - 1)
         IN  shorter \cup {b \o << l >> : b \in {u \in shorter : Len(u) = n - 1},
                                           l \in LineTexts}

Books == BooksUpTo(MaxLines)

RECURSIVE LStrip(_)
LStrip(str) == IF str # << >> /\ Head(str) = " " THEN LStrip(Tail(str)) ELSE str

RECURSIVE RStrip(_)
RStrip(str) ==
    IF str # << >> /\ str[Len(str)] = " "
    THEN RStrip(SubSeq(str, 1, Len(str) - 1))
    ELSE str

\* str.strip() (line 1029).
Strip(str) == RStrip(LStrip(str))

\* re.compile(pat) (line 1033) returns; otherwise it raises re.error.
Compiles(pat) == \A n \in DOMAIN pat : pat[n] # "("

\* p.search(line): the literal occurs somewhere in the line.
Search(pat, str) ==
    \E n \in 0..(Len(str) - Len(pat)) : SubSeq(str, n + 1, n + Len(pat)) = pat

\* p.fullmatch(line): the literal is the whole line.
FullMatch(pat, str) == str = pat

USE_FULLMATCH == TRUE

\* Line 1053: any((p.fullmatch(line) if USE_FULLMATCH else p.search(line))
\* for p in patterns).
AnyMatches(str) ==
    \E n \in DOMAIN patterns :
        IF USE_FULLMATCH THEN FullMatch(patterns[n], str) ELSE Search(patterns[n], str)

\* Line 1048.
CANDIDATES == << "utf-8-sig", "utf-8", "cp949" >>

\* The line's bytes decode under the encoding with errors="strict".
Decodes(enc, str) ==
    \A n \in DOMAIN str :
        /\ str[n] # "x"
        /\ str[n] = "k" => enc = "cp949"

\* ChapterRow(True, line, ln, "") (line 1054).
ChapterRow(selected, name, line_no, path) ==
    [selected |-> selected, name |-> name, line_no |-> line_no, path |-> path]

\* selected_count (lines 1071-1072).
selected_count(data) == Cardinality({r \in DOMAIN data : data[r].selected})

\* A table left by an earlier scan.
PriorRows == << ChapterRow(FALSE, << "a" >>, 2, "img.png") >>

\* The window when pushButton_FindChapterList is clicked: the label names a
\* file of any content and the slots are set in any way; or the label is
\* empty, or holds the "failed" of line 913 instead of a path.
InitScan ==
    /\ InitWith({<< >>})
    /\ gui_pc = "idle"
    /\ worker = 0
    /\ threads = [w \in 1..MaxWorkers |->
                    [state |-> "unborn", is_cancelled |-> FALSE, signalled |-> FALSE]]
    /\ button_enabled = TRUE
    /\ queued = {}
    /\ scan_pc = "idle"
    /\ slot_i = 0
    /\ patterns = << >>
    /\ enc_no = 0
    /\ ln = 0
    /\ rows = << >>
    /\ model_data \in {<< >>, PriorRows}
    /\ label_ChapterCount = (IF model_data = << >> THEN -1 ELSE selected_count(model_data))
    /\ last_op = "none"
    /\ data_before = << >>
    /\ op_before = "none"
    /\ data_before2 = << >>
    /\ set_calls = << >>
    /\ old_models = << >>
    /\ \/ /\ label_TextFilePath = FILE_PATH
          /\ slots \in [1..NUM_SLOTS -> SlotSettings]
          /\ book \in Books
       \/ /\ label_TextFilePath \in {"", "failed"}
          /\ slots = [s \in 1..NUM_SLOTS |-> [checked |-> TRUE, text |-> << "a" >>]]
          /\ book = << >>

ScanGoto(from, to) ==
    /\ scan_pc = from
    /\ scan_pc' = to
    /\ UNCHANGED << besidesScan, slots, book, slot_i, patterns, enc_no, ln, rows,
                    tableVars >>

\* The click on pushButton_FindChapterList (line 735); lines 1016-1017 read
\* the label.
FindClicked == ScanGoto("idle", "L1018")

\* Lines 1018-1022: if not file_path: return; patterns = [].
ScanCheckPath ==
    IF label_TextFilePath = ""
    THEN ScanGoto("L1018", "returned")
    ELSE /\ scan_pc = "L1018"
         /\ scan_pc' = "L1023"
         /\ patterns' = << >>
         /\ slot_i' = 1
         /\ UNCHANGED << besidesScan, slots, book, enc_no, ln, rows, tableVars >>

\* Lines 1023-1035 with the re.error of line 1033 not caught.
ScanSlotAborting ==
    /\ scan_pc = "L1023"
    /\ slot_i <= NUM_SLOTS
    /\ LET pat == Strip(slots[slot_i].text)
       IN  IF slots[slot_i].checked /\ pat # << >> /\ ~Compiles(pat)
           THEN scan_pc' = "raised" /\ UNCHANGED << patterns, slot_i >>
           ELSE /\ scan_pc' = "L1023"
                /\ slot_i' = slot_i + 1
                /\ patterns' = IF slots[slot_i].checked /\ pat # << >>
                               THEN Append(patterns, pat)
                               ELSE patterns
    /\ UNCHANGED << besidesScan, slots, book, enc_no, ln, rows, tableVars >>

\* Lines 1023-1035: one turn of the loop over the slots.
ScanSlot ==
    /\ scan_pc = "L1023"
    /\ slot_i <= NUM_SLOTS
    /\ scan_pc' = "L1023"
    /\ slot_i' = slot_i + 1
    /\ LET pat == Strip(slots[slot_i].text)
       IN  patterns' = IF ~slots[slot_i].checked THEN patterns
                       ELSE IF pat = << >> THEN patterns
                       ELSE IF Compiles(pat) THEN Append(patterns, pat)
                       ELSE patterns
    /\ UNCHANGED << besidesScan, slots, book, enc_no, ln, rows, tableVars >>

\* Line 1023: the loop over the slots is done.
ScanSlotsDone ==
    /\ slot_i > NUM_SLOTS
    /\ ScanGoto("L1023", "L1036")

\* Lines 1036-1037 without the return.
ScanCheckPatternsGoOn ==
    /\ scan_pc = "L1036"
    /\ scan_pc' = "L1048"
    /\ rows' = << >>
    /\ enc_no' = 1
    /\ UNCHANGED << besidesScan, slots, book, slot_i, patterns, ln, tableVars >>

\* Lines 1036-1047: if not patterns: return; rows = [].
ScanCheckPatterns ==
    IF patterns = << >>
    THEN ScanGoto("L1036", "returned")
    ELSE /\ scan_pc = "L1036"
         /\ scan_pc' = "L1048"
         /\ rows' = << >>
         /\ enc_no' = 1
         /\ UNCHANGED << besidesScan, slots, book, slot_i, patterns, ln, tableVars >>

\* Line 1048: for enc in (...); past the last candidate the loop just ends.
ScanNextEncoding ==
    IF enc_no > Len(CANDIDATES) THEN ScanGoto("L1048", "L1186") ELSE ScanGoto("L1048", "L1050")

\* Line 1050: open(file_path, "r", encoding=enc, errors="strict").
ScanOpen ==
    /\ scan_pc = "L1050"
    /\ label_TextFilePath = FILE_PATH
    /\ scan_pc' = "L1051"
    /\ ln' = 0
    /\ UNCHANGED << besidesScan, slots, book, slot_i, patterns, enc_no, rows, tableVars >>

\* Line 1050 raises FileNotFoundError, which line 1056 does not catch.
ScanOpenError ==
    /\ label_TextFilePath # FILE_PATH
    /\ ScanGoto("L1050", "raised")

\* The lines the file object decodes together with line n.
DecodeBlock(n) ==
    LET first == ((n - 1) \div DECODE_CHUNK) * DECODE_CHUNK + 1
    IN  first .. Min(first + DECODE_CHUNK - 1, Len(book))

\* Lines 1051-1057: the next line of the file.  At the end of the file the
\* loop ends and line 1055 breaks; a block that does not decode raises
\* UnicodeError before any of its lines is delivered, and lines 1056-1057 go
\* on to the next candidate; otherwise the line is delivered and appended to
\* rows when a pattern matches it.
ScanLine ==
    /\ scan_pc = "L1051"
    /\ IF ln = Len(book)
       THEN /\ scan_pc' = "L1186"
            /\ UNCHANGED << enc_no, ln, rows >>
       ELSE IF \E n \in DecodeBlock(ln + 1) : ~Decodes(CANDIDATES[enc_no], book[n])
       THEN /\ scan_pc' = "L1048"
            /\ enc_no' = enc_no + 1
            /\ UNCHANGED << ln, rows >>
       ELSE /\ scan_pc' = "L1051"
            /\ ln' = ln + 1
            /\ rows' = IF AnyMatches(book[ln + 1])
                       THEN Append(rows, ChapterRow(TRUE, book[ln + 1], ln + 1, ""))
                       ELSE rows
            /\ UNCHANGED enc_no
    /\ UNCHANGED << besidesScan, slots, book, slot_i, patterns, tableVars >>

\* Lines 1201-1232: model = ChapterTableModel(new_rows, ...), table.setModel
\* (model), one more handler connected to header.sectionClicked (line 1229)
\* and update_count_label() (line 1232). The handler of the model that was
\* attached stays connected; the handler of a model with no rows does
\* nothing (line 1144) and is left out.
setModel(new_rows) ==
    /\ model_data' = new_rows
    /\ label_ChapterCount' = selected_count(new_rows)
    /\ old_models' = IF model_data = << >> THEN old_models
                     ELSE Append(old_models, model_data)

\* Lines 1186-1232.
ScanPresent ==
    /\ scan_pc = "L1186"
    /\ scan_pc' = "shown"
    /\ setModel(rows)
    /\ UNCHANGED << besidesScan, slots, book, slot_i, patterns, enc_no, ln, rows,
                    last_op, data_before, op_before, data_before2, set_calls >>

NextScan ==
    \/ FindClicked
    \/ ScanCheckPath
    \/ ScanSlot
    \/ ScanSlotsDone
    \/ ScanCheckPatterns
    \/ ScanNextEncoding
    \/ ScanOpen
    \/ ScanOpenError
    \/ ScanLine
    \/ ScanPresent

\* One call of find_chapter_list.
SpecScan == InitScan /\ [][NextScan]_vars

\* ------------------------------------ the chapter table, lines 1060-1232
\* The image files the dialog of pick_image_for_row can give; "" when the
\* dialog is cancelled.
ImageFiles == {"", "a.png"}

RECURSIVE FreshRows(_)
\* The table of a scan that found n lines: all selected, no path.
FreshRows(n) ==
    IF n = 0 THEN << >>
    ELSE Append(FreshRows(n - 1), ChapterRow(TRUE, << "a" >>, n, ""))

\* The window after a scan has shown its table.
InitTable ==
    /\ InitWith({<< >>})
    /\ SelectIdle
    /\ ScanIdle
    /\ \E n \in 0..MaxRows : model_data = FreshRows(n)
    /\ label_ChapterCount = selected_count(model_data)
    /\ last_op = "none"
    /\ data_before = << >>
    /\ op_before = "none"
    /\ data_before2 = << >>
    /\ set_calls = << >>
    /\ old_models = << >>

\* The operation op is noted as the last one, with the table it found.
Noted(op) ==
    /\ last_op' = op
    /\ data_before' = model_data
    /\ IF op = "toggleAll" /\ last_op = "toggleAll"
       THEN op_before' = "toggleAll" /\ data_before2' = data_before
       ELSE op_before' = "none" /\ data_before2' = << >>

\* rowCount (line 1068).
rowCount == Len(model_data)

\* The loop of lines 1077-1080: cnt after the rows 0..i-1 of the source's
\* numbering, which are the rows 1..i here.
RECURSIVE CountSelected(_, _)
CountSelected(data, i) ==
    IF i = 0 THEN 0
    ELSE CountSelected(data, i - 1) + (IF data[i].selected THEN 1 ELSE 0)

\* Lines 1074-1081 with range(0, row_idx) for range(0, row_idx + 1).
_seq_for_rowExclusive(row_idx) ==
    IF ~model_data[row_idx].selected THEN ""
    ELSE CountSelected(model_data, row_idx - 1)

\* _seq_for_row (lines 1074-1081): "" for a row that is not selected, else
\* the number of selected rows up to and including it.
_seq_for_row(row_idx) ==
    IF ~model_data[row_idx].selected THEN ""
    ELSE CountSelected(model_data, row_idx)

\* Lines 1151-1152 with any() for all().
are_all_selectedAny(data) == Len(data) > 0 /\ \E r \in DOMAIN data : data[r].selected

\* are_all_selected (lines 1151-1152) of a model whose _data is data.
are_all_selected(data) == Len(data) > 0 /\ \A r \in DOMAIN data : data[r].selected

\* update_count_label (lines 1193-1196) for a model whose _data is data; the
\* label and the model object are both true in the test of line 1194.
update_count_label(data) == label_ChapterCount' = selected_count(data)

\* set_all_selected (lines 1143-1149): _data after the call.
set_all_selected(data, checked) ==
    IF Len(data) = 0 THEN data
    ELSE [r \in DOMAIN data |-> [data[r] EXCEPT !.selected = checked]]

\* Line 1228 without the not.
on_header_clickedSame(data, section) ==
    IF section = 0 THEN set_all_selected(data, are_all_selected(data)) ELSE data

\* on_header_clicked (lines 1226-1228) of a model whose _data is data: _data
\* after the call.
on_header_clicked(data, section) ==
    IF section = 0 THEN set_all_selected(data, ~are_all_selected(data)) ELSE data

\* The label after on_header_clicked of the models 1..i of models, each in
\* its turn: set_all_selected calls update_count_label (line 1149) unless
\* the model has no rows (line 1144).
RECURSIVE LabelAfter(_, _, _, _)
LabelAfter(label, models, i, section) ==
    IF i = 0 THEN label
    ELSE IF section = 0 /\ Len(models[i]) > 0
    THEN selected_count(on_header_clicked(models[i], section))
    ELSE LabelAfter(label, models, i - 1, section)

\* header.sectionClicked: every connected handler runs, in the order of the
\* connections, so the one of the attached model last.
sectionClicked(section) ==
    /\ old_models' = [i \in DOMAIN old_models |-> on_header_clicked(old_models[i], section)]
    /\ model_data' = on_header_clicked(model_data, section)
    /\ label_ChapterCount' = LabelAfter(label_ChapterCount, Append(old_models, model_data),
                                        Len(old_models) + 1, section)
    /\ Noted(IF section = 0 THEN "toggleAll" ELSE "header")
    /\ set_calls' = << >>
    /\ UNCHANGED << workerVars, selectVars, scanVars >>

\* The columns of the table (HEADERS, line 1061), the roles and the values a
\* caller of setData may pass.
Columns == 0..5
Roles == {"CheckStateRole", "EditRole"}
Values == {None, "a.png"}

\* index.isValid() for model.index(r, c): the row and the column exist.
isValid(r, c) == r \in DOMAIN model_data /\ c \in Columns

\* value or "" (line 1119).
OrEmpty(value) == IF value \in {"", None} THEN "" ELSE value

\* The return value of setData (lines 1107, 1115, 1121, 1124).
setDataReturns(r, c, role) ==
    /\ isValid(r, c)
    /\ \/ c = 0 /\ role = "CheckStateRole"
       \/ c = 5 /\ role = "EditRole"

\* Lines 1118-1121 with the row selected as well.
setDataSelecting(r, c, value, role) ==
    /\ IF ~isValid(r, c)
       THEN UNCHANGED << model_data, label_ChapterCount >>
       ELSE IF c = 0 /\ role = "CheckStateRole"
       THEN /\ model_data' = [model_data EXCEPT ![r].selected = (value = "Checked")]
            /\ update_count_label(model_data')
       ELSE IF c = 5 /\ role = "EditRole"
       THEN /\ model_data' = [model_data EXCEPT ![r].path = OrEmpty(value),
                                                ![r].selected = TRUE]
            /\ update_count_label(model_data')
       ELSE UNCHANGED << model_data, label_ChapterCount >>
    /\ set_calls' = << [row |-> r, column |-> c, value |-> value, role |-> role,
                        result |-> setDataReturns(r, c, role)] >>
    /\ UNCHANGED old_models

\* Line 1110 with the role left out of the test.
setDataAnyRole(r, c, value, role) ==
    /\ IF ~isValid(r, c)
       THEN UNCHANGED << model_data, label_ChapterCount >>
       ELSE IF c = 0
       THEN /\ model_data' = [model_data EXCEPT ![r].selected = (value = "Checked")]
            /\ update_count_label(model_data')
       ELSE IF c = 5 /\ role = "EditRole"
       THEN /\ model_data' = [model_data EXCEPT ![r].path = OrEmpty(value)]
            /\ UNCHANGED label_ChapterCount
       ELSE UNCHANGED << model_data, label_ChapterCount >>
    /\ set_calls' = << [row |-> r, column |-> c, value |-> value, role |-> role,
                        result |-> setDataReturns(r, c, role)] >>
    /\ UNCHANGED old_models

\* setData (lines 1106-1124) for the index of row r and column c.
setData(r, c, value, role) ==
    /\ IF ~isValid(r, c)
       THEN UNCHANGED << model_data, label_ChapterCount >>
       ELSE IF c = 0 /\ role = "CheckStateRole"
       THEN /\ model_data' = [model_data EXCEPT ![r].selected = (value = "Checked")]
            /\ update_count_label(model_data')
       ELSE IF c = 5 /\ role = "EditRole"
       THEN /\ model_data' = [model_data EXCEPT ![r].path = OrEmpty(value)]
            /\ UNCHANGED label_ChapterCount
       ELSE UNCHANGED << model_data, label_ChapterCount >>
    /\ set_calls' = << [row |-> r, column |-> c, value |-> value, role |-> role,
                        result |-> setDataReturns(r, c, role)] >>
    /\ UNCHANGED old_models

\* A call of setData by any holder of the model.
setDataCall(r, c, value, role) ==
    /\ setData(r, c, value, role)
    /\ Noted("setData")
    /\ UNCHANGED << workerVars, selectVars, scanVars >>

\* The events a cell of the selection column gets.
Events == {"MouseButtonPress", "KeyPressSpace", "MouseButtonRelease"}

\* model.data(index, CheckStateRole) for column 0 (lines 1097-1098).
CheckState(r) == IF model_data[r].selected THEN "Checked" ELSE "Unchecked"

\* Lines 1161-1162 with new = cur.
editorEventSame(r, event) ==
    /\ IF event \in {"MouseButtonPress", "KeyPressSpace"}
       THEN /\ setData(r, 0, CheckState(r), "CheckStateRole")
            /\ Noted("toggle")
       ELSE /\ UNCHANGED << model_data, label_ChapterCount >>
            /\ set_calls' = << >>
            /\ UNCHANGED old_models
            /\ Noted("event")
    /\ UNCHANGED << workerVars, selectVars, scanVars >>

\* CheckBoxDelegate.editorEvent (lines 1156-1168) on row r of column 0, the
\* only column the delegate is set for (line 1213): a press of the left
\* button or of the Space key calls setData with the other check state.
editorEvent(r, event) ==
    /\ IF event \in {"MouseButtonPress", "KeyPressSpace"}
       THEN /\ setData(r, 0, IF CheckState(r) = "Checked" THEN "Unchecked" ELSE "Checked",
                       "CheckStateRole")
            /\ Noted("toggle")
       ELSE /\ UNCHANGED << model_data, label_ChapterCount >>
            /\ set_calls' = << >>
            /\ UNCHANGED old_models
            /\ Noted("event")
    /\ UNCHANGED << workerVars, selectVars, scanVars >>

\* pick_image_for_row (lines 1215-1221): the dialog gives a file or "", and
\* a file is set with setData on column 5.
pick_image_for_row(row, image) ==
    /\ IF image # ""
       THEN setData(row, 5, image, "EditRole")
       ELSE /\ UNCHANGED << model_data, label_ChapterCount, old_models >>
            /\ set_calls' = << >>
    /\ Noted(IF image # "" THEN "setIllustration" ELSE "pick")
    /\ UNCHANGED << workerVars, selectVars, scanVars >>

NextTable ==
    \/ \E section \in Columns : sectionClicked(section)
    \/ \E r \in DOMAIN model_data, event \in Events : editorEvent(r, event)
    \/ \E row \in DOMAIN model_data, image \in ImageFiles : pick_image_for_row(row, image)
    \/ \E r \in 1..(rowCount + 1), c \in Columns, value \in Values, role \in Roles :
           setDataCall(r, c, value, role)

\* The user at work on the table of one scan.
SpecTable == InitTable /\ [][NextTable]_vars

\* One more call of find_chapter_list (lines 991-1232) that finds n lines and
\* shows them.
find_chapter_list(n) ==
    /\ model_data = << >> \/ Len(old_models) < MaxRescans
    /\ setModel(FreshRows(n))
    /\ Noted("scan")
    /\ set_calls' = << >>
    /\ UNCHANGED << workerVars, selectVars, scanVars >>

NextRescan ==
    \/ \E n \in 0..MaxRows : find_chapter_list(n)
    \/ \E section \in Columns : sectionClicked(section)
    \/ \E r \in DOMAIN model_data, event \in Events : editorEvent(r, event)

\* The user scans again, clicks the header and toggles rows.
SpecRescan == InitTable /\ [][NextRescan]_vars

\* ----------------------------------------------------------------- claims
Terminal == {"ret154", "ret163", "ret170", "end182", "end183", "end189"}

\* The places in the log of the signals of each sort.
FinishedAt == {i \in DOMAIN events : events[i].sig = "finished"}

InLoopProgressAt == {i \in DOMAIN events : events[i].sig = "progress" /\ events[i].line = 135}

FinalProgressAt == {i \in DOMAIN events : events[i].sig = "progress" /\ events[i].line = 145}

Progress100At == {i \in DOMAIN events : events[i].sig = "progress" /\ events[i].val = 100}

ConvertingStatusAt == {i \in DOMAIN events : events[i].sig = "status" /\ events[i].line = 141}

CompleteStatusAt == {i \in DOMAIN events : events[i].sig = "status" /\ events[i].line = 146}

\* The finished signals emitted so far, in order.
FinishedSignals == SelectSeq(events, LAMBDA e : e.sig = "finished")

Max(S) == CHOOSE x \in S : \A y \in S : y <= x

\* C1: every run that has ended has emitted exactly one finished signal.
C1_ExactlyOneCompletion == pc \in Terminal => Cardinality(FinishedAt) = 1

\* C2: a run that ended because it saw the cancel flag set (at line 153, at
\* line 162, or in the converter and again at line 182) has emitted a finished
\* signal with an empty path and an empty error.
C2_CancelledCompletion ==
    pc \in {"ret154", "ret163", "end182"} =>
        \E i \in FinishedAt : events[i].path = "" /\ events[i].error = ""

\* The statements of convert_file_chunked.
InConverter == {"L116", "L121", "L122", "L124", "L125", "L126", "L129", "L130",
                "L133", "L134", "L139", "Lclose", "L144", "L145", "L146", "L149"}

\* C3, as claimed: in a run whose conversion is interrupted by cancel(), after
\* any number of chunks, no progress signal of value 100 and no "conversion
\* complete" status is emitted at any time.
C3_NoCompletionSignalsIfCancelled ==
    (is_cancelled /\ cancelAt \in InConverter) =>
        Progress100At \cup CompleteStatusAt = {}

\* The statements at which the converter's post-loop check of line 144 has
\* been passed with the flag unset, and what follows them.
PastPostCheck == {"L145", "L146", "L182", "L183"} \cup Terminal

\* C3, amended: when cancel() is called before the converter has passed its
\* post-loop check of the flag (line 144), the converter's completion signals,
\* progress 100 of line 145 and the "conversion complete" status of line 146,
\* are never emitted.
C3_NoCompletionAfterEarlyCancel ==
    (is_cancelled /\ cancelAt \notin PastPostCheck) =>
        FinalProgressAt \cup CompleteStatusAt = {}

\* C3 witness: cancel() arrived in the chunk loop after a chunk was written,
\* and the run has ended.
C3_Witness ==
    /\ pc = "end182"
    /\ cancelAt \in {"L125", "L126", "L129", "L130", "L133", "L134", "L139"}
    /\ Len(dest.data) >= CHUNK_SIZE

\* C4, as claimed: a conversion that completed normally and was not cancelled
\* has emitted the progress value 100 exactly once from the converter.
C4_Progress100ExactlyOnce ==
    (CompleteStatusAt # {} /\ ~is_cancelled) =>
        Cardinality(Progress100At \cap (InLoopProgressAt \cup FinalProgressAt)) = 1

\* C4, amended: a conversion that completed normally and was not cancelled has
\* emitted the post-loop progress 100 of line 145 exactly once; a throttled
\* in-loop signal carries 100 as well exactly when the UTF-8 bytes written have
\* reached the size of the source, so 100 may be emitted more than once.
C4_FinalProgressExactlyOnce ==
    (CompleteStatusAt # {} /\ ~is_cancelled) =>
        /\ Cardinality(FinalProgressAt) = 1
        /\ \A i \in InLoopProgressAt :
              events[i].val = 100 <=> events[i].bytes >= GetSize(file)

\* C4 witness: a completed, uncancelled conversion with an in-loop 100.
C4_Witness ==
    /\ pc = "end183"
    /\ ~is_cancelled
    /\ InLoopProgressAt \cap Progress100At # {}

\* C5: an in-loop progress signal is emitted only when the UTF-8 bytes have
\* grown by PROGRESS_UPDATE_INTERVAL or more since the previous in-loop
\* signal (0 at first), and each is followed at once by its one status signal.
C5_ThrottledAndPaired ==
    \A i \in InLoopProgressAt :
        LET before == {j \in InLoopProgressAt : j < i}
            base   == IF before = {} THEN 0 ELSE events[Max(before)].bytes
        IN  /\ events[i].bytes - base >= PROGRESS_UPDATE_INTERVAL
            /\ IF i = Len(events) THEN pc = "L139"
               ELSE /\ i + 1 \in ConvertingStatusAt
                    /\ i + 2 \notin ConvertingStatusAt

\* C5 witness: two in-loop progress signals, the second with its status.
C5_Witness ==
    /\ Cardinality(InLoopProgressAt) >= 2
    /\ Cardinality(ConvertingStatusAt) = Cardinality(InLoopProgressAt)

\* C6: every progress value is in 0..100 and every in-loop value is
\* min(100, floor(processed * 100 / total)) for the bytes processed then.
C6_ProgressValue ==
    \A i \in 1..Len(events) :
        events[i].sig = "progress" =>
            /\ events[i].val \in 0..100
            /\ i \in InLoopProgressAt =>
                  /\ GetSize(file) > 0
                  /\ events[i].val = Min(100, (events[i].bytes * 100) \div GetSize(file))

\* What line 106 makes of a name chardet reported.
Reported(result) == IF result.encoding = None THEN "utf-8" ELSE result.encoding

\* C7: chardet runs at most twice; it runs a second time, on the first
\* 3 * SAMPLE_SIZE bytes, only when the first confidence is below the
\* threshold and the first sample is full, and (when no I/O error ends the
\* detection) whenever that is so; the second result's name is then the one
\* returned, whatever its confidence.
C7_SecondInference ==
    /\ Len(detect_calls) <= 2
    /\ Len(detect_calls) = 2 =>
          /\ detect_calls[1].result.confidence < CONF_THRESHOLD
          /\ detect_calls[1].len = SAMPLE_SIZE
          /\ detect_calls[2].len = Min(GetSize(file), 3 * SAMPLE_SIZE)
    /\ (pc = "L160" /\ det_line = 106) =>
          /\ Len(detect_calls) = 2 <=>
                 /\ detect_calls[1].result.confidence < CONF_THRESHOLD
                 /\ detect_calls[1].len = SAMPLE_SIZE
          /\ Len(detect_calls) = 2 => retval = Reported(detect_calls[2].result)

\* C7 witness: a second inference of low confidence whose name, different
\* from the first, is returned.
C7_Witness ==
    /\ pc = "L160"
    /\ Len(detect_calls) = 2
    /\ detect_calls[2].result.confidence < CONF_THRESHOLD
    /\ detect_calls[2].result.encoding # detect_calls[1].result.encoding
    /\ retval = detect_calls[2].result.encoding

\* C8: detect_encoding_fast returns a name, never None, and never raises into
\* run: an empty file gives utf-8 without any inference, an I/O error gives
\* utf-8, and a None name of the adopted result gives utf-8.
C8_DetectAlwaysNames ==
    /\ pc \in {"L186", "L189", "end189"} => encoding # "unset"
    /\ GetSize(file) = 0 => detect_calls = << >>
    /\ pc = "L160" =>
          /\ retval \in EncodingNames
          /\ GetSize(file) = 0 => retval = "utf-8"
          /\ det_line = 109 => retval = "utf-8"
          /\ det_line = 106 => retval = Reported(detect_calls[Len(detect_calls)].result)

\* C8 witness: the adopted (second) result has no name and utf-8 is returned.
C8_Witness ==
    /\ pc = "L160"
    /\ det_line = 106
    /\ Len(detect_calls) = 2
    /\ detect_calls[1].result.encoding # None
    /\ detect_calls[2].result.encoding = None
    /\ retval = "utf-8"

AlreadyUtf8Path == {"L167", "L168", "L169", "ret170"}

\* C9: when the detected name is utf-8, utf-8-sig or ascii in any case and the
\* check of line 162 saw no cancellation, the run takes lines 167-170: it ends
\* with the one finished signal (source path, no error), the converter is not
\* entered and no destination file is created; with any other name the
\* converter is entered.
C9_AlreadyUtf8 ==
    /\ pc \in AlreadyUtf8Path <=>
          /\ Lower(encoding) \in {"utf-8", "utf-8-sig", "ascii"}
          /\ pc \notin {"L162", "ret163", "L166"}
    /\ pc \in AlreadyUtf8Path =>
          /\ ~dest.exists
          /\ \A i \in DOMAIN events : events[i].line \notin {173, 135, 141, 145, 146}
    /\ pc = "ret170" => FinishedSignals = << Finished(FILE_PATH, "", 169) >>

\* C9 witness: a run that ended on line 170 for a name in upper case.
C9_Witness == pc = "ret170" /\ encoding = "UTF-8-SIG"

\* C10: once an operation of the conversion has raised, the run is on its way
\* to, or at, the end of the handler of lines 185-189; no finished signal with
\* a result path is ever emitted, and the run ends with the one finished
\* signal (empty path, non-empty message).
C10_FailureReported ==
    /\ exc # "" =>
          /\ pc \in {"L149", "L186", "L189", "end189"}
          /\ \A i \in FinishedAt : events[i].path = ""
    /\ pc = "end189" =>
          /\ exc # ""
          /\ FinishedSignals = << Finished("", exc, 189) >>

\* C10 witness: a failure after part of the output was written.
C10_Witness == pc = "end189" /\ dest.exists /\ Len(dest.data) > 0

\* C11: the finished signal, once emitted, is the last signal of the run: no
\* progress, status or finished signal follows it in the log.
C11_FinishedIsLast == \A i \in FinishedAt : i = Len(events)

\* C11 witness: a conversion that emitted progress and status signals in its
\* loop and has ended with its finished signal.
C11_Witness ==
    /\ pc = "end183"
    /\ InLoopProgressAt # {}
    /\ ConvertingStatusAt # {}
    /\ FinishedAt # {}

\* C13: cancel() changes nothing but the flag, and the loop tests the flag
\* before every read: after cancel() at most one more chunk is read (only when
\* the worker stood between the test of line 124 and the read of line 125) and
\* at most one more is written (only when it stood between that test and the
\* write of line 129); the next test of line 124 leaves the loop.
C13_CancelIsCooperative ==
    /\ [](/\ reads_after_cancel <= 1
          /\ writes_after_cancel <= 1
          /\ reads_after_cancel = 1 => cancelAt = "L125"
          /\ writes_after_cancel = 1 => cancelAt \in {"L125", "L126", "L129"})
    /\ [][/\ is_cancelled' # is_cancelled =>
               /\ is_cancelled'
               /\ UNCHANGED << pc, io, events, detectLocals, encoding, convertLocals, exc >>
          /\ (is_cancelled /\ pc = "L124" /\ pc' # pc) => pc' = "Lclose"]_vars

\* C13 witness: cancel() arrived between the test and the read; that chunk was
\* read and written, a further chunk was left unread and the run has ended.
C13_Witness ==
    /\ pc = "end182"
    /\ cancelAt = "L125"
    /\ reads_after_cancel = 1
    /\ writes_after_cancel = 1
    /\ fpos < Len(file)

\* C14: once the converter has reported its completion (line 146), the
\* destination holds the decoded text of the source, character for character.
C14_OutputEqualsDecodedInput == CompleteStatusAt # {} => dest.data = file

\* The worker threads between start() and the end of run.
RunningThreads == {w \in 1..MaxWorkers : threads[w].state = "running"}

\* C12: at most one worker thread runs at any time, and from the end of the
\* wait of line 840 to the start() of line 857 none runs: the worker that was
\* found running has been cancelled and its thread has ended.
C12_OneWorkerAtATime ==
    /\ Cardinality(RunningThreads) <= 1
    /\ gui_pc \in {"L843", "L853", "L857"} =>
          /\ RunningThreads = {}
          /\ \A w \in 1..MaxWorkers :
                threads[w].is_cancelled => threads[w].state = "ended"

\* C12 witness: a second worker runs after the first, found running at line
\* 838, was cancelled and waited for.
C12_Witness ==
    /\ threads[1].is_cancelled
    /\ threads[1].state = "ended"
    /\ threads[2].state = "running"

RECURSIVE ExpectedRows(_)
\* One record for each of the first n lines of the file that some pattern
\* matches as a whole, in the order of the file.
ExpectedRows(n) ==
    IF n = 0 THEN << >>
    ELSE ExpectedRows(n - 1) \o
            (IF \E m \in DOMAIN patterns : book[n] = patterns[m]
             THEN << [selected |-> TRUE, name |-> book[n], line_no |-> n, path |-> ""] >>
             ELSE << >>)

\* No candidate encoding decodes the whole file.
AllCandidatesFail ==
    \A e \in DOMAIN CANDIDATES : \E n \in DOMAIN book : ~Decodes(CANDIDATES[e], book[n])

\* C15: the table shown for a file that one of the candidate encodings
\* decodes holds exactly one record per line that an active pattern matches
\* as a whole, in file order, with the line's 1-based number, selected and
\* with an empty path.
C15_OneRecordPerMatchingLine ==
    (scan_pc = "shown" /\ ~AllCandidatesFail) => model_data = ExpectedRows(Len(book))

\* C16: the line numbers of the records collected so far increase strictly.
C16_LineNoIncreasing ==
    \A n \in 1..(Len(rows) - 1) : rows[n].line_no < rows[n + 1].line_no

\* C17: a scan of a file no candidate encoding decodes never goes on to build
\* and show a table, as a scan that decoded the file does.
C17_UndecodableIsAnError == AllCandidatesFail => scan_pc \notin {"L1186", "shown"}

RECURSIVE ActivePatterns(_)
\* The stripped texts of those of the first n slots that are checked, not
\* empty and compile, in the order of the slots.
ActivePatterns(n) ==
    IF n = 0 THEN << >>
    ELSE ActivePatterns(n - 1) \o
            (IF /\ slots[n].checked
                /\ Strip(slots[n].text) # << >>
                /\ Compiles(Strip(slots[n].text))
             THEN << Strip(slots[n].text) >>
             ELSE << >>)

\* C18: when no slot gives an active pattern the handler returns at line 1037:
\* it collects no record, never opens the file and leaves the table as it was.
C18_NoPatternsNoOp ==
    /\ [](ActivePatterns(NUM_SLOTS) = << >> =>
             /\ scan_pc \in {"idle", "L1018", "L1023", "L1036", "returned"}
             /\ rows = << >>)
    /\ [][ActivePatterns(NUM_SLOTS) = << >> => UNCHANGED << rows, model_data, book >>]_vars

\* C18 witness: a call that returned at line 1037, its only checked slots
\* being empty or not compiling, with the earlier table still in place.
C18_Witness ==
    /\ scan_pc = "returned"
    /\ label_TextFilePath = FILE_PATH
    /\ slots[1] = [checked |-> TRUE, text |-> << "(" >>]
    /\ slots[2] = [checked |-> TRUE, text |-> << " " >>]
    /\ book # << >>
    /\ model_data = PriorRows

\* C19: the list of patterns is, at every turn of the loop and after it, the
\* list of the active slots seen so far in slot order, and no pattern text
\* makes the handler raise.
C19_ActiveSlotsInOrder ==
    /\ scan_pc = "L1023" => patterns = ActivePatterns(slot_i - 1)
    /\ scan_pc \in {"L1036", "L1048", "L1050", "L1051", "L1186", "shown"} =>
          patterns = ActivePatterns(NUM_SLOTS)
    /\ (scan_pc = "returned" /\ label_TextFilePath # "") =>
          patterns = ActivePatterns(NUM_SLOTS)
    /\ scan_pc = "raised" => label_TextFilePath # FILE_PATH

\* C19 witness: the slot in the middle does not compile; the slots around it
\* are both in the list.
C19_Witness ==
    /\ scan_pc = "L1036"
    /\ slots[1] = [checked |-> TRUE, text |-> << "a", "b" >>]
    /\ slots[2] = [checked |-> TRUE, text |-> << "(" >>]
    /\ slots[3] = [checked |-> TRUE, text |-> << "a" >>]
    /\ patterns = << << "a", "b" >>, << "a" >> >>

\* C20: a click on the header of the selection column leaves an empty table as
\* it is; otherwise it selects every row when some row was not selected and
\* deselects every row when all were selected, and changes nothing else of a
\* row.
C20_ToggleAll ==
    last_op = "toggleAll" =>
        /\ Len(model_data) = Len(data_before)
        /\ \A r \in DOMAIN data_before :
              /\ model_data[r].selected = (\E q \in DOMAIN data_before : ~data_before[q].selected)
              /\ model_data[r] = [data_before[r] EXCEPT !.selected = model_data[r].selected]

\* C20 witness: the click found some rows selected and some not, and selected
\* them all.
C20_Witness ==
    /\ last_op = "toggleAll"
    /\ \E r, q \in DOMAIN data_before : data_before[r].selected /\ ~data_before[q].selected
    /\ \A r \in DOMAIN model_data : model_data[r].selected

\* The rows of a table are all selected, or none is.
Uniform(data) == \A r, q \in DOMAIN data : data[r].selected = data[q].selected

\* C21 as stated: after two toggleAll in succession the table is the one the
\* first of them found (the sequence numbers are derived from it).
C21_ToggleAllTwiceRestores == op_before = "toggleAll" => model_data = data_before2

\* C21 as amended: two toggleAll in succession give back a table that was all
\* selected or all unselected; a table with some rows selected and some not
\* ends with no row selected, nothing else of a row changed.
C21_ToggleAllTwice ==
    op_before = "toggleAll" =>
        IF Uniform(data_before2)
        THEN model_data = data_before2
        ELSE model_data = [r \in DOMAIN data_before2 |->
                              [data_before2[r] EXCEPT !.selected = FALSE]]

\* C21 witness: two toggleAll in succession on a table with some rows
\* selected and some not.
C21_Witness ==
    /\ op_before = "toggleAll"
    /\ ~Uniform(data_before2)
    /\ \A r \in DOMAIN model_data : ~model_data[r].selected

\* The selected rows of the table.
SelectedRows == {r \in DOMAIN model_data : model_data[r].selected}

\* C22: the sequence number of a selected row is the number of selected rows
\* at or before it, a row that is not selected has none, and the numbers of
\* the selected rows are exactly 1..selected_count, increasing in row order.
C22_SequenceNumbersDense ==
    /\ \A r \in DOMAIN model_data \ SelectedRows : _seq_for_row(r) = ""
    /\ \A r \in SelectedRows :
           _seq_for_row(r) = Cardinality({q \in SelectedRows : q <= r})
    /\ {_seq_for_row(r) : r \in SelectedRows} = 1..selected_count(model_data)
    /\ \A r, q \in SelectedRows : r < q => _seq_for_row(r) < _seq_for_row(q)

\* C22 witness: after a toggle the first row is not selected and the two rows
\* after it carry the numbers 1 and 2.
C22_Witness ==
    /\ last_op = "toggle"
    /\ Len(model_data) = 3
    /\ SelectedRows = {2, 3}
    /\ _seq_for_row(1) = ""
    /\ _seq_for_row(2) = 1
    /\ _seq_for_row(3) = 2

\* The one call of setData of the last operation.
TheCall == set_calls[1]

\* The fields of a row that are not its path.
NotPath(row) == << row.selected, row.name, row.line_no >>

\* The sequence numbers of a table (column 1, lines 1074-1081).
SeqNumbers(data) ==
    [r \in DOMAIN data |->
        IF data[r].selected THEN CountSelected(data, r) ELSE ""]

\* C23: setData on the path column with the edit role changes the path of
\* exactly that row; the selected flag, text and line_no of every row, the
\* path of every other row and all sequence numbers stay.
C23_SetIllustration ==
    (/\ set_calls # << >>
     /\ TheCall.column = 5
     /\ TheCall.role = "EditRole"
     /\ TheCall.row \in DOMAIN data_before) =>
        /\ TheCall.result
        /\ DOMAIN model_data = DOMAIN data_before
        /\ model_data[TheCall.row].path = OrEmpty(TheCall.value)
        /\ \A r \in DOMAIN model_data :
               /\ NotPath(model_data[r]) = NotPath(data_before[r])
               /\ r # TheCall.row => model_data[r].path = data_before[r].path
        /\ SeqNumbers(model_data) = SeqNumbers(data_before)

\* C23 witness: an image was picked for the second row of three, the first
\* of them not selected.
C23_Witness ==
    /\ last_op = "setIllustration"
    /\ Len(model_data) = 3
    /\ TheCall.row = 2
    /\ model_data[2].path = "a.png"
    /\ data_before[2].path = ""
    /\ ~model_data[1].selected

\* The selected flags of a table.
Flags(data) == [r \in DOMAIN data |-> data[r].selected]

\* C24: a click or the Space key on the selection column flips the selected
\* flag of that row and nothing else; and a setData call for any other
\* column and role than the two it handles returns false and changes no row.
C24_Toggle ==
    /\ last_op = "toggle" =>
           /\ TheCall.result
           /\ model_data = [data_before EXCEPT ![TheCall.row].selected =
                                ~data_before[TheCall.row].selected]
    /\ (/\ set_calls # << >>
        /\ ~(TheCall.column = 0 /\ TheCall.role = "CheckStateRole")
        /\ ~(TheCall.column = 5 /\ TheCall.role = "EditRole")) =>
           /\ ~TheCall.result
           /\ model_data = data_before

\* C24 witness: a toggle has unselected the second row of three.
C24_Witness ==
    /\ last_op = "toggle"
    /\ Len(model_data) = 3
    /\ TheCall.row = 2
    /\ Flags(data_before) = << TRUE, TRUE, TRUE >>
    /\ Flags(model_data) = << TRUE, FALSE, TRUE >>

\* C24 witness of the second sentence: setData was called on the selection
\* column with the edit role.
C24_WitnessOther ==
    /\ last_op = "setData"
    /\ TheCall.column = 0
    /\ TheCall.role = "EditRole"
    /\ TheCall.value = None
    /\ TheCall.row \in DOMAIN model_data
    /\ model_data[TheCall.row].selected

\* C26: the count label shows the selected count of the attached model.
C26_LabelShowsAttachedCount == label_ChapterCount = selected_count(model_data)

\* C27: a run emits at most one finished signal, whenever cancel() comes and
\* wherever the run fails.
C27_AtMostOneCompletion ==
    /\ Len(FinishedSignals) <= 1
    /\ \A i, j \in FinishedAt : events[i] = events[j]

\* C27 witness: a run that was cancelled and failed has ended with its one
\* error completion.
C27_Witness ==
    /\ pc = "end189"
    /\ is_cancelled
    /\ Len(FinishedSignals) = 1
    /\ FinishedSignals[1].error # ""

\* The finished signals that carry the derived destination path and no error.
SuccessAt ==
    {i \in FinishedAt : events[i].path = Utf8Path(FILE_PATH) /\ events[i].error = ""}

\* C28: when the completion with the derived destination path is emitted,
\* the loop has ended at the end of the file, the destination holds every
\* chunk of the source, and progress 100 and the "complete" status came
\* earlier in the run; and the cancel flag, once set, stays set.
C28_SuccessMeansWholeFile ==
    /\ [](\A i \in SuccessAt :
           /\ chunk = << >>
           /\ fpos = Len(UniversalNewlines(file))
           /\ dest.exists
           /\ dest.data = UniversalNewlines(file)
           /\ \E j \in Progress100At : j < i
           /\ \E k \in CompleteStatusAt : k < i)
    /\ [][is_cancelled => is_cancelled']_vars

\* C28 witness: a file of two chunks was converted and the completion
\* emitted, cancel() coming only after the test of line 182.
C28_Witness ==
    /\ pc = "end183"
    /\ SuccessAt # {}
    /\ Len(dest.data) > CHUNK_SIZE
    /\ is_cancelled

\* C29: once detection has ended in its except clause (line 109), the run
\* is on the already-UTF-8 path or has returned on a cancel it saw at line
\* 162; it has no destination file and no error completion, and where it
\* ends at line 170 it has emitted progress 100 and finished(source, "").
C29_DetectionErrorIsAlreadyUtf8 ==
    det_line = 109 =>
        /\ pc \in {"L160", "L162", "ret163", "L166"} \cup AlreadyUtf8Path
        /\ ~dest.exists
        /\ \A i \in FinishedAt : events[i] = Finished(FILE_PATH, "", 169)
        /\ pc \in Terminal \ {"ret163"} =>
               /\ pc = "ret170"
               /\ \E j \in Progress100At : j < Len(events)
               /\ events[Len(events)] = Finished(FILE_PATH, "", 169)

\* C29 witness: the source of a run could not be read, and the run has ended
\* at line 170.
C29_Witness ==
    /\ det_line = 109
    /\ pc = "ret170"
    /\ file # << >>
    /\ FinishedAt # {}

\* C25: a started run ends, whether cancel() is called, at whatever moment,
\* or not, and whether an I/O error occurs or not; a run that has not ended
\* has a step it can take whatever the caller does, and cancel() can be
\* called at any moment.
C25_RunStops ==
    /\ (pc # "idle") ~> (pc \in Terminal)
    /\ [](pc \notin Terminal \cup {"idle"} => ENABLED WorkerStep)
    /\ [](~is_cancelled => ENABLED Cancel)

\* C25 witness: a run cancelled while it copied chunks has ended, part of
\* the destination written.
C25_Witness ==
    /\ pc = "end182"
    /\ cancelAt \in {"L125", "L126", "L129", "L130"}
    /\ dest.exists
    /\ Len(dest.data) > 0
    /\ Len(dest.data) < Len(file)

====
